---- MODULE Spec2Model ----
(***************************************************************************)
(* Camiones QR: trucks, their compliance documents, the daily 22-day alert *)
(* sweep (cron) and the document status computation.                       *)
(*                                                                         *)
(* Calendar dates are day numbers.  Instants (JavaScript Date values) are  *)
(* whole hours since the epoch: every instant the code subtracts is a      *)
(* midnight, and midnights and UTC offsets are whole hours.                *)
(***************************************************************************)
EXTENDS Integers, Sequences, FiniteSets, TLC

VARIABLES
    trucks,          \* table trucks: placa -> row
    documents,       \* table documents: id -> row
    photos,          \* table photos: id -> row
    nextDocId,       \* documents created so far + 1 (the next fresh id)
    nextPhotoId,     \* photos created so far + 1
    curdate,         \* CURDATE() of the database, a day number
    transporter,     \* TRUE iff SMTP_HOST is set (transporter !== null)
    ALERT_EMAIL_TO,  \* TRUE iff process.env.ALERT_EMAIL_TO is set
    tz,              \* time zone of the Node process
    pc,              \* per sweep run: where the cron callback stands
    rows,            \* per sweep run: the ids of the rows its SELECT returned
    outbox,          \* the 22-day notifications delivered, oldest first
    escaped,         \* TRUE once an error left the cron callback uncaught
    dateStr,         \* status computation: the expiration date given
    via,             \* status computation: how the date reaches the code
    now,             \* status computation: new Date(), an instant
    status,          \* status computation: the value returned
    variante,        \* gallery: which fotosSinPortada is deployed
    fotos,           \* gallery: the stored photo list of the truck
    portadaUrl,      \* gallery: truck.foto, the cover reference
    galeria,         \* gallery: the list handed to the view
    reports,         \* table reports, in insertion order
    solicitud,       \* public report: the last submission received
    respuesta,       \* public report: what its sender got back
    reportMails,     \* public report: notifications delivered to the operator
    sqlStrict,       \* TRUE iff the database server runs a strict sql_mode
    alertas,         \* alerts listing: the rows selected and the list returned
    arranque,        \* startup: where the startup function stands
    intentos,        \* startup: database probes made by waitForDb
    listens,         \* startup: calls of app.listen
    vivo,            \* TRUE while the Node process runs
    dbUp,            \* TRUE while the database answers queries
    degradado,       \* startup: TRUE once waitForDb gave up ('arrancando igual')
    admin            \* per session: req.session.admin

vars == <<trucks, documents, photos, nextDocId, nextPhotoId, curdate,
          transporter, ALERT_EMAIL_TO, tz, pc, rows, outbox, escaped,
          dateStr, via, now, status, variante, fotos, portadaUrl, galeria,
          reports, solicitud, respuesta, reportMails, sqlStrict, alertas,
          arranque, intentos, listens, vivo, dbUp, degradado, admin>>

dbVars == <<trucks, documents, photos, nextDocId, nextPhotoId>>
cronVars == <<pc, rows, outbox, escaped>>
envVars == <<transporter, ALERT_EMAIL_TO, tz>>
statusVars == <<dateStr, via, now, status>>
galleryVars == <<variante, fotos, portadaUrl, galeria>>
reportVars == <<reports, solicitud, respuesta, reportMails, sqlStrict>>
alertVars == <<alertas>>
bootVars == <<arranque, intentos, listens, vivo, dbUp, degradado>>
authVars == <<admin>>
viewVars == <<galleryVars, reportVars, alertVars, bootVars, authVars>>

---------------------------------------------------------------------------
(* Bounds of the model *)

MaxDocs == 1        \* documents created in one behaviour
MaxDay == 1         \* midnights the database clock passes
MaxMails == 2       \* notifications delivered in one behaviour
MaxSpan == 33       \* status computation: days before and after day 0
MaxUploads == 2     \* photos uploaded as photos or covers in one behaviour

(* Program constants *)

HoursPerDay == 24   \* 1000*60*60*24 ms
AlertDays == 22     \* DATEDIFF(...) = 22
SoonDays == 30      \* dias <= 30

NULL == <<>>
Some(x) == <<x>>

\* No status has been asked for
StatusIdle ==
    /\ dateStr = NULL
    /\ via = "db"
    /\ now = 0
    /\ status = NULL

\* No page with a gallery has been asked for
GalleryIdle ==
    /\ variante = "blob"
    /\ fotos = <<>>
    /\ portadaUrl = NULL
    /\ galeria = NULL

\* No public report has been submitted
ReportIdle ==
    /\ reports = <<>>
    /\ solicitud = NULL
    /\ respuesta = NULL
    /\ reportMails = 0
    /\ sqlStrict = FALSE

\* What the specification at hand leaves alone besides the gallery
\* The server started at the first probe and listens
BootIdle ==
    /\ arranque = "done"
    /\ intentos = 1
    /\ listens = 1
    /\ vivo = TRUE
    /\ dbUp = TRUE
    /\ degradado = FALSE

\* The browsers that hold a session cookie
Sessions == {"s1", "s2"}

\* No session has logged in
AuthIdle == admin = [s \in Sessions |-> FALSE]

RestIdle == ReportIdle /\ alertas = NULL /\ BootIdle /\ AuthIdle

ViewsIdle == GalleryIdle /\ RestIdle

\* Sweep runs: the run the daily timer starts, and a second run in flight with
\* it (a second server instance, or a tick that fires while the previous run
\* still awaits)
Timer == "timer"
Runs == {Timer, "second"}

---------------------------------------------------------------------------
(* Time zones and JavaScript Date *)

\* A zone is its UTC offset (hours) before and after one clock change;
\* lastOld is the last day whose midnight still has the old offset.
CostaRica == [name |-> "America/Costa_Rica", before |-> -6, after |-> -6, lastOld |-> 0]
Utc == [name |-> "UTC", before |-> 0, after |-> 0, lastOld |-> 0]
Madrid == [name |-> "Europe/Madrid", before |-> 1, after |-> 2, lastOld |-> 3]
NewYork == [name |-> "America/New_York", before |-> -4, after |-> -5, lastOld |-> -4]

Zones == {CostaRica, Utc, Madrid, NewYork}

Days == (0 - MaxSpan - 3) .. (MaxSpan + 3)

Offset(z, d) == IF d <= z.lastOld THEN z.before ELSE z.after

\* new Date(y, m, d): the instant of local midnight of day d
LocalMidnight(z, d) == HoursPerDay * d - Offset(z, d)

\* new Date('YYYY-MM-DD'): a date-only string is parsed as UTC midnight
ParseDateStr(d) == HoursPerDay * d

\* getFullYear()/getMonth()/getDate(): the local calendar day of an instant
LocalDay(z, t) ==
    CHOOSE d \in Days : LocalMidnight(z, d) <= t /\ t < LocalMidnight(z, d + 1)

\* today.setHours(0,0,0,0)
SetHoursZero(z, t) == LocalMidnight(z, LocalDay(z, t))

---------------------------------------------------------------------------
(* Plates *)

RawPlates == {"", "abc1", "XYZ9"}

\* A plate kept as it was written
AsWritten(s) == s

\* String(x).trim().toUpperCase()
ToUpper(s) ==
    CASE s = "abc1" -> "ABC1"
      [] s = "Abc1" -> "ABC1"
      [] s = "xyz9" -> "XYZ9"
      [] OTHER -> s

Plates == {ToUpper(s) : s \in RawPlates} \ {""}

---------------------------------------------------------------------------
(* Inputs and the initial tables *)

\* The dates typed into the forms, and the uploads (NULL: no file; else the
\* file's extension)
DateInputs == {Some(AlertDays + 1), Some(AlertDays + 2)}
Uploads == {NULL, Some(".png"), Some(".pdf")}

\* The tables as the server finds them when it starts: one truck with a
\* document without expiration date (fecha_vencimiento DATE NULL) and a
\* document that expires 22 days after day 0.
SeedTrucks == [p \in {"ABC1"} |-> [foto |-> ""]]
SeedDocs ==
    [i \in {1, 2} |->
        [placa |-> "ABC1",
         fecha_vencimiento |-> IF i = 1 THEN NULL ELSE Some(AlertDays),
         url |-> NULL, alert22Sent |-> FALSE]]

LastDocId == Cardinality(DOMAIN SeedDocs) + MaxDocs

---------------------------------------------------------------------------
(* Queries *)

\* A lookup that takes the plate as it is written
getTruckExact(placa) ==
    IF placa \in DOMAIN trucks THEN Some(trucks[placa]) ELSE NULL

getTruck(placa) ==
    IF ToUpper(placa) \in DOMAIN trucks THEN Some(trucks[ToUpper(placa)]) ELSE NULL

\* INSERT INTO trucks ... ON DUPLICATE KEY UPDATE ..., foto=VALUES(foto)
upsertTruck(data) ==
    [p \in DOMAIN trucks \cup {data.placa} |->
        IF p = data.placa THEN [foto |-> data.foto] ELSE trucks[p]]

\* The DATE a JavaScript Date parameter is stored as: the driver writes the
\* instant in the process's local time and the column keeps the day.
SqlDateParam(z, t) == LocalDay(z, t)

\* ALLOWED_EXTS.has(ext), ext the lower-cased extension of the upload
ALLOWED_EXTS(ext) == ext \in {".jpg", ".jpeg", ".png", ".webp", ".gif"}

\* fk_documents_truck / fk_photos_truck
FkTruck(placa) == placa \in DOMAIN trucks

\* INSERT INTO documents ... ON DUPLICATE KEY UPDATE (placa is not updated)
upsertDoc(placa, doc) ==
    LET fecha == IF doc.fecha_vencimiento # NULL
                 THEN Some(SqlDateParam(tz, ParseDateStr(doc.fecha_vencimiento[1])))
                 ELSE NULL
        row == [placa |-> ToUpper(placa), fecha_vencimiento |-> fecha,
                url |-> doc.url, alert22Sent |-> doc.alert22Sent]
    IN  IF doc.id \in DOMAIN documents
        THEN [documents EXCEPT ![doc.id] =
                 [row EXCEPT !.placa = documents[doc.id].placa]]
        ELSE [i \in DOMAIN documents \cup {doc.id} |->
                 IF i = doc.id THEN row ELSE documents[i]]

\* DELETE FROM documents WHERE id = ? AND placa = ?
deleteDoc(placa, id) ==
    [i \in {j \in DOMAIN documents :
               ~(j = id /\ documents[j].placa = ToUpper(placa))} |-> documents[i]]

\* INSERT INTO photos (id, placa, filename, mime, data, createdAt); in the
\* folder variants fs.writeFileSync(dest, file.buffer)
savePhotoDb(placa, id, file) ==
    [i \in DOMAIN photos \cup {id} |->
        IF i = id THEN [placa |-> ToUpper(placa), file |-> file] ELSE photos[i]]

\* fk_photos_truck; a folder needs no truck row
PhotoInsertOk(placa) == variante = "fs" \/ placa \in DOMAIN trucks

\* An identifier generator that hands out an identifier already in the table
ReusedDocId == IF DOMAIN documents = {} THEN nextDocId ELSE CHOOSE i \in DOMAIN documents : TRUE

\* Date.now().toString(36) + Math.random().toString(36).slice(2, 6):
\* an identifier no earlier document was given
NewDocId == nextDocId

NewPhotoId == nextPhotoId

\* DATEDIFF with its arguments exchanged
DateDiffReversed(d) == curdate - d

\* DATEDIFF(d.fecha_vencimiento, CURDATE())
DateDiff(d) == d - curdate

\* The SELECT without its alert22Sent condition
Select22AnyFlag ==
    {i \in DOMAIN documents :
        /\ documents[i].placa \in DOMAIN trucks
        /\ documents[i].fecha_vencimiento # NULL
        /\ DateDiff(documents[i].fecha_vencimiento[1]) = AlertDays}

\* SELECT d.*, t.placa FROM documents d JOIN trucks t ON t.placa = d.placa
\*  WHERE d.fecha_vencimiento IS NOT NULL
\*    AND DATEDIFF(d.fecha_vencimiento, CURDATE()) = 22 AND d.alert22Sent = 0
Select22 ==
    {i \in DOMAIN documents :
        /\ documents[i].placa \in DOMAIN trucks
        /\ documents[i].fecha_vencimiento # NULL
        /\ DateDiff(documents[i].fecha_vencimiento[1]) = AlertDays
        /\ documents[i].alert22Sent = FALSE}

\* The UPDATE without its WHERE
MarkSentAll(ids) ==
    [i \in DOMAIN documents |-> [documents[i] EXCEPT !.alert22Sent = TRUE]]

\* UPDATE documents SET alert22Sent = 1 WHERE id IN (ids)
MarkSent(ids) ==
    [i \in DOMAIN documents |->
        IF i \in ids THEN [documents[i] EXCEPT !.alert22Sent = TRUE]
        ELSE documents[i]]

\* The condition without rows.length
SendConditionConfigOnly(r) == transporter /\ ALERT_EMAIL_TO

\* if (rows.length && transporter && process.env.ALERT_EMAIL_TO)
SendCondition(r) == rows[r] # {} /\ transporter /\ ALERT_EMAIL_TO

\* The callback without its try/catch
Uncaught == FALSE

\* try { ... } catch (e) { console.error('Cron error:', e.message); }
Caught == TRUE

---------------------------------------------------------------------------
(* Admin operations *)

\* The rows POST /admin/editar writes
EditarStore(rawPlaca) ==
    LET placa == ToUpper(rawPlaca)
        existing == getTruck(placa)
        truck == [placa |-> placa,
                  foto |-> IF existing # NULL THEN existing[1].foto ELSE ""]
    IN  trucks' = IF placa = "" THEN trucks ELSE upsertTruck(truck)

\* A save that takes the cover from the form, which has no such field
AdminEditarFotoFromForm(rawPlaca) ==
    LET placa == ToUpper(rawPlaca)
        truck == [placa |-> placa, foto |-> ""]
    IN  /\ trucks' = IF placa = "" THEN trucks ELSE upsertTruck(truck)
        /\ UNCHANGED <<documents, photos, nextDocId, nextPhotoId, curdate>>
        /\ UNCHANGED <<envVars, cronVars, statusVars, viewVars>>

\* POST /admin/editar
AdminEditar(rawPlaca) ==
    /\ EditarStore(rawPlaca)
    /\ UNCHANGED <<documents, photos, nextDocId, nextPhotoId, curdate>>
    /\ UNCHANGED <<envVars, cronVars, statusVars, viewVars>>

\* POST /admin/doc/add
DocAdd(rawPlaca, complete, fecha) ==
    LET placa == ToUpper(rawPlaca)
        doc == [id |-> NewDocId, fecha_vencimiento |-> fecha, url |-> NULL,
                alert22Sent |-> FALSE]
    IN  /\ nextDocId <= LastDocId
        /\ IF placa # "" /\ complete /\ fecha # NULL /\ FkTruck(placa)
           THEN /\ documents' = upsertDoc(placa, doc)
                /\ nextDocId' = nextDocId + 1
           ELSE UNCHANGED <<documents, nextDocId>>
        /\ UNCHANGED <<trucks, photos, nextPhotoId, curdate>>
        /\ UNCHANGED <<envVars, cronVars, statusVars, viewVars>>

\* The photo ids one behaviour can reach
LastPhotoId == MaxUploads + MaxDocs

\* POST /admin/doc/upload: the folder variants write the file before the
\* document row is inserted
DocUpload(rawPlaca, file, fecha) ==
    LET placa == ToUpper(rawPlaca)
        saved == NewPhotoId
        doc == [id |-> NewDocId, fecha_vencimiento |-> fecha, url |-> Some(saved),
                alert22Sent |-> FALSE]
    IN  /\ nextDocId <= LastDocId
        /\ nextPhotoId <= LastPhotoId
        /\ IF placa # "" /\ file # NULL /\ fecha # NULL /\ ALLOWED_EXTS(file[1])
              /\ PhotoInsertOk(placa)
           THEN /\ photos' = savePhotoDb(placa, saved, file[1])
                /\ nextPhotoId' = nextPhotoId + 1
                /\ IF FkTruck(placa)
                   THEN /\ documents' = upsertDoc(placa, doc)
                        /\ nextDocId' = nextDocId + 1
                   ELSE UNCHANGED <<documents, nextDocId>>
           ELSE UNCHANGED <<documents, nextDocId, photos, nextPhotoId>>
        /\ UNCHANGED <<trucks, curdate>>
        /\ UNCHANGED <<envVars, cronVars, statusVars, viewVars>>

\* POST /admin/doc/delete
DocDelete(rawPlaca, id) ==
    LET placa == ToUpper(rawPlaca)
    IN  /\ documents' = IF placa = "" THEN documents ELSE deleteDoc(placa, id)
        /\ UNCHANGED <<trucks, photos, nextDocId, nextPhotoId, curdate>>
        /\ UNCHANGED <<envVars, cronVars, statusVars, viewVars>>

---------------------------------------------------------------------------
(* Photos and the cover *)

\* `/file/${id}`
FileUrls == [i \in 1 .. LastPhotoId |-> "/file/" \o ToString(i)]

\* `/uploads/${placa}/${name}`
UploadUrls ==
    [p \in Plates |->
        [i \in 1 .. LastPhotoId |-> "/uploads/" \o p \o "/" \o ToString(i)]]

\* saved.url of the database variant and of the folder variants
PhotoUrl(placa, id) ==
    IF variante = "blob" THEN FileUrls[id] ELSE UploadUrls[placa][id]

\* The ids handed out so far, and the next one, which no photo has yet
KnownIds == {i \in 1 .. LastPhotoId : i <= nextPhotoId}

\* The names a request may carry: none, or the URL of a photo
BlobNames == {""} \cup {FileUrls[i] : i \in KnownIds}
FolderNames == {""} \cup {UploadUrls[p][i] : p \in Plates, i \in KnownIds}
NameInputs == IF variante = "blob" THEN BlobNames ELSE FolderNames

\* getIdFromUrlOrName(name); in the folder variants sanitizeName(name), the
\* last segment
getIdFromUrlOrName(name) ==
    LET ids == {i \in 1 .. LastPhotoId :
                   FileUrls[i] = name \/ \E p \in Plates : UploadUrls[p][i] = name}
    IN  IF ids = {} THEN NULL ELSE Some(CHOOSE i \in ids : TRUE)

\* SELECT * FROM documents WHERE placa = ?, the ids of the rows
getDocsByPlaca(placa) ==
    {i \in DOMAIN documents : documents[i].placa = ToUpper(placa)}

\* listPhotosFromDb(placa), listPhotos(placa): the photos stored for the plate
listPhotosFromDb(placa) ==
    {PhotoUrl(photos[i].placa, i) :
        i \in {j \in DOMAIN photos : photos[j].placa = ToUpper(placa)}}

\* DELETE FROM photos WHERE id = ? AND placa = ?
deletePhotoDbById(id, placa) ==
    [i \in {j \in DOMAIN photos : ~(j = id /\ photos[j].placa = placa)} |-> photos[i]]

\* UPDATE photos SET filename=?, mime=?, data=? WHERE id=? AND placa=?
replacePhotoDbById(id, placa, file) ==
    [i \in DOMAIN photos |->
        IF i = id /\ photos[i].placa = placa
        THEN [photos[i] EXCEPT !.file = file] ELSE photos[i]]

\* POST /admin/upload, one file in the request
PhotoUpload(rawPlaca, file) ==
    LET placa == ToUpper(rawPlaca)
    IN  /\ nextPhotoId <= MaxUploads
        /\ IF placa # "" /\ file # NULL /\ ALLOWED_EXTS(file[1]) /\ PhotoInsertOk(placa)
           THEN /\ photos' = savePhotoDb(placa, NewPhotoId, file[1])
                /\ nextPhotoId' = nextPhotoId + 1
           ELSE UNCHANGED <<photos, nextPhotoId>>
        /\ UNCHANGED <<trucks, documents, nextDocId, curdate>>
        /\ UNCHANGED <<envVars, cronVars, statusVars, viewVars>>

\* A delete that also clears the cover it removes
PhotoDeleteClearsCover(rawPlaca, name) ==
    LET placa == ToUpper(rawPlaca)
        id == getIdFromUrlOrName(name)
    IN  /\ photos' = IF placa # "" /\ id # NULL
                     THEN deletePhotoDbById(id[1], placa) ELSE photos
        /\ trucks' = [p \in DOMAIN trucks |->
                         IF placa # "" /\ id # NULL /\ trucks[p].foto = name
                         THEN [foto |-> ""] ELSE trucks[p]]
        /\ UNCHANGED <<documents, nextDocId, nextPhotoId, curdate>>
        /\ UNCHANGED <<envVars, cronVars, statusVars, viewVars>>

\* POST /admin/photo/delete
PhotoDelete(rawPlaca, name) ==
    LET placa == ToUpper(rawPlaca)
        id == getIdFromUrlOrName(name)
    IN  /\ photos' = IF placa # "" /\ id # NULL
                     THEN deletePhotoDbById(id[1], placa) ELSE photos
        /\ UNCHANGED <<trucks, documents, nextDocId, nextPhotoId, curdate>>
        /\ UNCHANGED <<envVars, cronVars, statusVars, viewVars>>

\* fs.writeFileSync(target, req.file.buffer) of the folder variants: the file
\* is written whether or not it was there (a name not handed out yet is left
\* to the upload that will pick it)
writeFileSync(id, placa, file) ==
    IF id \in DOMAIN photos THEN replacePhotoDbById(id, placa, file)
    ELSE IF id < nextPhotoId THEN savePhotoDb(placa, id, file)
    ELSE photos

\* POST /admin/photo/replace
PhotoReplace(rawPlaca, name, file) ==
    LET placa == ToUpper(rawPlaca)
        id == getIdFromUrlOrName(name)
    IN  /\ photos' = IF placa # "" /\ id # NULL /\ file # NULL
                     THEN IF variante = "blob"
                          THEN replacePhotoDbById(id[1], placa, file[1])
                          ELSE writeFileSync(id[1], placa, file[1])
                     ELSE photos
        /\ UNCHANGED <<trucks, documents, nextDocId, nextPhotoId, curdate>>
        /\ UNCHANGED <<envVars, cronVars, statusVars, viewVars>>

\* POST /admin/photo/cover
PhotoCover(rawPlaca, name) ==
    LET placa == ToUpper(rawPlaca)
        id == getIdFromUrlOrName(name)
        truck == getTruck(placa)
    IN  /\ trucks' = IF placa # "" /\ id # NULL /\ truck # NULL
                     THEN upsertTruck([placa |-> placa, foto |-> PhotoUrl(placa, id[1])])
                     ELSE trucks
        /\ UNCHANGED <<documents, photos, nextDocId, nextPhotoId, curdate>>
        /\ UNCHANGED <<envVars, cronVars, statusVars, viewVars>>

\* POST /admin/cover/upload: the database variant inserts the photo whatever
\* its extension and needs the truck row; the folder variants check the
\* extension and create the truck row if there is none
CoverStore(rawPlaca, file) ==
    LET placa == ToUpper(rawPlaca)
        saved == NewPhotoId
    IN  /\ nextPhotoId <= MaxUploads
        /\ IF placa # "" /\ file # NULL /\ PhotoInsertOk(placa)
              /\ (variante = "blob" \/ ALLOWED_EXTS(file[1]))
           THEN /\ photos' = savePhotoDb(placa, saved, file[1])
                /\ nextPhotoId' = nextPhotoId + 1
                /\ trucks' = upsertTruck([placa |-> placa, foto |-> PhotoUrl(placa, saved)])
           ELSE UNCHANGED <<photos, nextPhotoId, trucks>>

CoverUpload(rawPlaca, file) ==
    /\ CoverStore(rawPlaca, file)
    /\ UNCHANGED <<documents, nextDocId, curdate>>
        /\ UNCHANGED <<envVars, cronVars, statusVars, viewVars>>

\* DELETE FROM trucks WHERE placa = ?, issued on the database: the foreign keys
\* of documents and photos are ON DELETE CASCADE; the folder variants keep the
\* photos as files, which no foreign key reaches
TruckDelete(placa) ==
    /\ placa \in DOMAIN trucks
    /\ trucks' = [p \in DOMAIN trucks \ {placa} |-> trucks[p]]
    /\ documents' = [i \in {j \in DOMAIN documents : documents[j].placa # placa}
                        |-> documents[i]]
    /\ photos' = IF variante = "blob"
                 THEN [i \in {j \in DOMAIN photos : photos[j].placa # placa}
                          |-> photos[i]]
                 ELSE photos
    /\ UNCHANGED <<nextDocId, nextPhotoId, curdate>>
    /\ UNCHANGED <<envVars, cronVars, statusVars, viewVars>>

\* Midnight passes on the database server
AdvanceDay ==
    /\ curdate < MaxDay
    /\ curdate' = curdate + 1
    /\ UNCHANGED <<dbVars, envVars, cronVars, statusVars, viewVars>>

---------------------------------------------------------------------------
(* The 22-day sweep: cron.schedule('0 9 * * *', async () => {...}) *)

\* const [rows] = await pool.query(SELECT ...)
SweepSelect(r) ==
    /\ pc[r] = "idle"
    /\ rows' = [rows EXCEPT ![r] = Select22]
    /\ pc' = [pc EXCEPT ![r] = "selected"]
    /\ UNCHANGED <<dbVars, curdate, envVars, outbox, escaped, statusVars, viewVars>>

\* the SELECT throws: control passes to the catch
SweepSelectFails(r) ==
    /\ pc[r] = "idle"
    /\ pc' = [pc EXCEPT ![r] = "caught"]
    /\ escaped' = (escaped \/ ~Caught)
    /\ UNCHANGED <<dbVars, curdate, envVars, rows, outbox, statusVars, viewVars>>

\* the condition is false: the callback ends
SweepSkip(r) ==
    /\ pc[r] = "selected"
    /\ ~SendCondition(r)
    /\ pc' = [pc EXCEPT ![r] = "idle"]
    /\ rows' = [rows EXCEPT ![r] = {}]
    /\ UNCHANGED <<dbVars, curdate, envVars, outbox, escaped, statusVars, viewVars>>

\* await transporter.sendMail({... listHtml ...}) resolves
SweepSendOk(r) ==
    /\ pc[r] = "selected"
    /\ SendCondition(r)
    /\ Len(outbox) < MaxMails
    /\ outbox' = Append(outbox, rows[r])
    /\ pc' = [pc EXCEPT ![r] = "sent"]
    /\ UNCHANGED <<dbVars, curdate, envVars, rows, escaped, statusVars, viewVars>>

\* A sweep whose UPDATE is not skipped when sendMail rejects
SweepSendFailsMarks(r) ==
    /\ pc[r] = "selected"
    /\ SendCondition(r)
    /\ documents' = MarkSent(rows[r])
    /\ pc' = [pc EXCEPT ![r] = "caught"]
    /\ escaped' = (escaped \/ ~Caught)
    /\ UNCHANGED <<trucks, photos, nextDocId, nextPhotoId, curdate>>
    /\ UNCHANGED <<envVars, rows, outbox, statusVars, viewVars>>

\* await transporter.sendMail(...) rejects: control passes to the catch
SweepSendFails(r) ==
    /\ pc[r] = "selected"
    /\ SendCondition(r)
    /\ pc' = [pc EXCEPT ![r] = "caught"]
    /\ escaped' = (escaped \/ ~Caught)
    /\ UNCHANGED <<dbVars, curdate, envVars, rows, outbox, statusVars, viewVars>>

\* const ids = rows.map(r => r.id); await pool.query(UPDATE ...)
SweepUpdate(r) ==
    /\ pc[r] = "sent"
    /\ documents' = MarkSent(rows[r])
    /\ pc' = [pc EXCEPT ![r] = "idle"]
    /\ rows' = [rows EXCEPT ![r] = {}]
    /\ UNCHANGED <<trucks, photos, nextDocId, nextPhotoId, curdate>>
    /\ UNCHANGED <<envVars, outbox, escaped, statusVars, viewVars>>

\* the UPDATE throws: control passes to the catch
SweepUpdateFails(r) ==
    /\ pc[r] = "sent"
    /\ pc' = [pc EXCEPT ![r] = "caught"]
    /\ escaped' = (escaped \/ ~Caught)
    /\ UNCHANGED <<dbVars, curdate, envVars, rows, outbox, statusVars, viewVars>>

\* catch (e) { console.error('Cron error:', e.message); } and the callback ends
SweepCatch(r) ==
    /\ pc[r] = "caught"
    /\ pc' = [pc EXCEPT ![r] = "idle"]
    /\ rows' = [rows EXCEPT ![r] = {}]
    /\ UNCHANGED <<dbVars, curdate, envVars, outbox, escaped, statusVars, viewVars>>

\* the process dies while the callback is in flight; the tables and the
\* mail already delivered stay
Crash(r) ==
    /\ pc[r] # "idle"
    /\ pc' = [pc EXCEPT ![r] = "idle"]
    /\ rows' = [rows EXCEPT ![r] = {}]
    /\ UNCHANGED <<dbVars, curdate, envVars, outbox, escaped, statusVars, viewVars>>

---------------------------------------------------------------------------
(* Document status *)

\* Math.floor(a / b) for b > 0
MathFloorDiv(a, b) == a \div b

\* dias = Math.floor((v - today)/(1000*60*60*24));
\* estado = dias < 0 ? 'vencido' : (dias <= 30 ? 'por-vencer' : 'vigente')
StatusOf(v, today) ==
    LET dias == MathFloorDiv(v - today, HoursPerDay)
    IN  [estado |-> IF dias < 0 THEN "vencido"
                    ELSE IF dias <= SoonDays THEN "por-vencer"
                    ELSE "vigente",
         dias |-> Some(dias)]

SinFecha == [estado |-> "sin-fecha", dias |-> NULL]

\* GET /c/:placa, docs.map: d.fecha_vencimiento is the Date the driver built
\* for the DATE column, local midnight of that day
RowStatus(fecha) ==
    IF fecha = NULL THEN SinFecha
    ELSE StatusOf(LocalMidnight(tz, fecha[1]), SetHoursZero(tz, now))

\* docStatus(dateStr), dateStr a 'YYYY-MM-DD' string
docStatus(ds) ==
    IF ds = NULL THEN SinFecha
    ELSE StatusOf(ParseDateStr(ds[1]), SetHoursZero(tz, now))

\* Hours into the day at which the status is asked for
HoursOfDay == {0, 9, 23}

\* A page is rendered, or docStatus is called
StatusCompute ==
    /\ status = NULL
    /\ status' = Some(IF via = "db" THEN RowStatus(dateStr) ELSE docStatus(dateStr))
    /\ UNCHANGED <<dbVars, curdate, envVars, cronVars, dateStr, via, now, viewVars>>

InitStatus ==
    /\ trucks = SeedTrucks
    /\ documents = SeedDocs
    /\ photos = <<>>
    /\ nextDocId = Cardinality(DOMAIN SeedDocs) + 1
    /\ nextPhotoId = 1
    /\ curdate = 0
    /\ transporter = FALSE
    /\ ALERT_EMAIL_TO = FALSE
    /\ tz \in Zones
    /\ pc = [r \in Runs |-> "idle"]
    /\ rows = [r \in Runs |-> {}]
    /\ outbox = <<>>
    /\ escaped = FALSE
    /\ dateStr \in {NULL} \cup {Some(d) : d \in (0 - MaxSpan) .. MaxSpan}
    /\ via \in {"db", "str"}
    /\ \E h \in HoursOfDay : now = LocalMidnight(tz, 0) + h
    /\ status = NULL
    /\ ViewsIdle

NextStatus == StatusCompute

SpecStatus == InitStatus /\ [][NextStatus]_vars

\* The local calendar day on which the status is asked for
Today == LocalDay(tz, now)

---------------------------------------------------------------------------
(* Gallery: the photo list without the cover *)

MaxFotos == 3       \* photos in one stored list

\* A reference is a URL: the path up to the last '/', and the last segment
UploadsDir == "/uploads/ABC1"
FsNames == {"Foto.jpg", "foto.jpg", "b.png", "c.gif"}
BlobIds == {"k1", "k2", "k3"}

\* listPhotos(placa): `/uploads/${PLACA}/${f}` for the files of the folder
FsRefs == {[dir |-> UploadsDir, name |-> n] : n \in FsNames}

\* listPhotosFromDb(placa): `/file/${r.id}`
BlobRefs == {[dir |-> "/file", name |-> n] : n \in BlobIds}

\* A cover kept from an earlier storage layout
LegacyRefs == {[dir |-> "/img", name |-> "b.png"]}

\* String.prototype.toLowerCase
ToLowerCase(str) ==
    CASE str = "Foto.jpg" -> "foto.jpg"
      [] str = UploadsDir -> "/uploads/abc1"
      [] OTHER -> str

\* (u || '').toLowerCase()
LowerRef(u) == [dir |-> ToLowerCase(u.dir), name |-> ToLowerCase(u.name)]

\* ul.split('/').pop()
LastSegment(u) == u.name

\* fotosSinPortada of the variant that keeps the photos in the database
fotosSinPortada(fs, portada) ==
    IF portada = NULL THEN fs
    ELSE LET cover == LowerRef(portada[1])
             Keep(u) == LowerRef(u) # cover
         IN  SelectSeq(fs, Keep)

\* fotosSinPortada of the variants that keep the photos in folders
fotosSinPortadaFs(fs, portada) ==
    IF portada = NULL THEN fs
    ELSE LET cover == LowerRef(portada[1])
             coverName == LastSegment(cover)
             Keep(u) ==
                 LET ul == LowerRef(u)
                     name == LastSegment(ul)
                 IN  ul # cover /\ name # coverName
         IN  SelectSeq(fs, Keep)

\* The lists of distinct references of at most MaxFotos entries
Lists(refs) ==
    UNION {{l \in [1 .. n -> refs] : \A i, j \in 1 .. n : i # j => l[i] # l[j]} :
              n \in 0 .. MaxFotos}

\* GET /c/:placa: fotos = fotosSinPortada(fotos, truck?.foto)
GalleryRender ==
    /\ galeria = NULL
    /\ galeria' = Some(IF variante = "blob"
                       THEN fotosSinPortada(fotos, portadaUrl)
                       ELSE fotosSinPortadaFs(fotos, portadaUrl))
    /\ UNCHANGED <<dbVars, curdate, envVars, cronVars, statusVars>>
    /\ UNCHANGED <<variante, fotos, portadaUrl, reportVars, alertVars, bootVars, authVars>>

InitGallery ==
    /\ trucks = SeedTrucks
    /\ documents = SeedDocs
    /\ photos = <<>>
    /\ nextDocId = Cardinality(DOMAIN SeedDocs) + 1
    /\ nextPhotoId = 1
    /\ curdate = 0
    /\ transporter = FALSE
    /\ ALERT_EMAIL_TO = FALSE
    /\ tz = CostaRica
    /\ pc = [r \in Runs |-> "idle"]
    /\ rows = [r \in Runs |-> {}]
    /\ outbox = <<>>
    /\ escaped = FALSE
    /\ StatusIdle
    /\ variante \in {"blob", "fs"}
    /\ fotos \in Lists(IF variante = "blob" THEN BlobRefs ELSE FsRefs)
    /\ portadaUrl \in {NULL} \cup {Some(r) : r \in FsRefs \cup BlobRefs \cup LegacyRefs}
    /\ galeria = NULL
    /\ RestIdle

NextGallery == GalleryRender

SpecGallery == InitGallery /\ [][NextGallery]_vars

Range(seq) == {seq[i] : i \in 1 .. Len(seq)}

\* C12: with no cover the listing is the stored photo list; with a cover it
\* is the stored list, in its order, without the cover reference, and every
\* photo whose file name is not the cover's is listed.
C12_GalleryWithoutCover ==
    galeria # NULL
       => LET g == galeria[1]
              Listed12(u) == u \in Range(g)
          IN  /\ portadaUrl = NULL => g = fotos
              /\ portadaUrl # NULL
                    => /\ g = SelectSeq(fotos, Listed12)
                       /\ portadaUrl[1] \notin Range(g)
                       /\ \A u \in Range(fotos) :
                             u.name # portadaUrl[1].name => u \in Range(g)

\* C13: with a cover set, a photo is left out of the listing exactly when
\* its reference equals the cover reference or its file name equals the
\* cover's file name.
C13_CoverMatching ==
    (galeria # NULL /\ portadaUrl # NULL)
       => \A u \in Range(fotos) :
             u \notin Range(galeria[1])
                <=> (u = portadaUrl[1] \/ u.name = portadaUrl[1].name)

---------------------------------------------------------------------------
(* Specification of the stores and the sweep *)

Init ==
    /\ trucks = SeedTrucks
    /\ documents = SeedDocs
    /\ photos = <<>>
    /\ nextDocId = Cardinality(DOMAIN SeedDocs) + 1
    /\ nextPhotoId = 1
    /\ curdate = 0
    /\ transporter \in BOOLEAN
    /\ ALERT_EMAIL_TO \in BOOLEAN
    /\ tz = CostaRica
    /\ pc = [r \in Runs |-> "idle"]
    /\ rows = [r \in Runs |-> {}]
    /\ outbox = <<>>
    /\ escaped = FALSE
    /\ StatusIdle
    /\ ViewsIdle

Admin ==
    \/ \E p \in RawPlates : AdminEditar(p)
    \/ \E p \in RawPlates, c \in BOOLEAN, f \in DateInputs \cup {NULL} :
          DocAdd(p, c, f)
    \/ \E p \in RawPlates, file \in Uploads, f \in DateInputs \cup {NULL} :
          DocUpload(p, file, f)
    \/ \E p \in RawPlates, i \in 1 .. LastDocId : DocDelete(p, i)

Sweep(r) ==
    \/ SweepSelect(r)
    \/ SweepSelectFails(r)
    \/ SweepSkip(r)
    \/ SweepSendOk(r)
    \/ SweepSendFails(r)
    \/ SweepUpdate(r)
    \/ SweepUpdateFails(r)
    \/ SweepCatch(r)
    \/ Crash(r)

\* One server instance: the timer fires once a day and a run ends long before
\* the next tick, so one run is in flight at a time.
Next ==
    \/ Admin
    \/ AdvanceDay
    \/ Sweep(Timer)

Spec == Init /\ [][Next]_vars

\* Runs in flight together: nothing in the callback keeps a second run out.
NextOverlap ==
    \/ Admin
    \/ AdvanceDay
    \/ \E r \in Runs : Sweep(r)

SpecOverlap == Init /\ [][NextOverlap]_vars

---------------------------------------------------------------------------
(* Specification of the admin operations on trucks, documents and photos *)

ReplaceFiles == {NULL, Some(".webp")}

InitAdmin ==
    /\ trucks = SeedTrucks
    /\ documents = SeedDocs
    /\ photos = <<>>
    /\ nextDocId = Cardinality(DOMAIN SeedDocs) + 1
    /\ nextPhotoId = 1
    /\ curdate = 0
    /\ transporter = FALSE
    /\ ALERT_EMAIL_TO = FALSE
    /\ tz = CostaRica
    /\ pc = [r \in Runs |-> "idle"]
    /\ rows = [r \in Runs |-> {}]
    /\ outbox = <<>>
    /\ escaped = FALSE
    /\ StatusIdle
    /\ variante \in {"blob", "fs"}
    /\ fotos = <<>>
    /\ portadaUrl = NULL
    /\ galeria = NULL
    /\ RestIdle

PhotoAdmin ==
    \/ \E p \in RawPlates, file \in Uploads : PhotoUpload(p, file)
    \/ \E p \in RawPlates, n \in NameInputs : PhotoDelete(p, n)
    \/ \E p \in RawPlates, n \in NameInputs, file \in ReplaceFiles : PhotoReplace(p, n, file)
    \/ \E p \in RawPlates, n \in NameInputs : PhotoCover(p, n)
    \/ \E p \in RawPlates, file \in Uploads : CoverUpload(p, file)

NextAdmin ==
    \/ Admin
    \/ PhotoAdmin

SpecAdmin == InitAdmin /\ [][NextAdmin]_vars

\* The operations on the photos and the cover alone
NextPhotos ==
    \/ \E p \in RawPlates : AdminEditar(p)
    \/ PhotoAdmin

SpecPhotos == InitAdmin /\ [][NextPhotos]_vars

\* The photo operations, and trucks deleted on the database
NextTrucks ==
    \/ NextPhotos
    \/ \E p \in Plates : TruckDelete(p)

SpecTrucks == InitAdmin /\ [][NextTrucks]_vars

---------------------------------------------------------------------------
(* Public reports: POST /c/:placa/report *)

MaxReports == 2     \* reports stored in one behaviour

\* A form field is the sequence of its characters
Blank == " "
Mensajes ==
    {<<>>, <<Blank>>, <<"o", "k">>, <<Blank, "o", "k", Blank>>,
     <<"o", "k", "a">>, <<Blank, "o", "k", "a", Blank>>}
Empresas == {<<>>, <<Blank>>, <<"x">>, <<Blank, "x">>}

\* String.prototype.trim()
RECURSIVE TrimStart(_)
TrimStart(s) ==
    IF s # <<>> /\ Head(s) = Blank THEN TrimStart(Tail(s)) ELSE s

RECURSIVE TrimEnd(_)
TrimEnd(s) ==
    IF s # <<>> /\ s[Len(s)] = Blank THEN TrimEnd(SubSeq(s, 1, Len(s) - 1)) ELSE s

Trim(s) == TrimEnd(TrimStart(s))

\* A honeypot test that lets every submission through
HoneypotIgnored(empresa) == FALSE

\* if (empresa) ...: const empresa = (req.body.empresa || '').trim()
Honeypot(empresa) == Trim(empresa) # <<>>

\* A notification whose failure is not caught
MailUncaught == FALSE

\* try { ... await transporter.sendMail(...) } catch (e) { console.error(...) }
MailCaught == TRUE

\* INSERT INTO reports ... createdAt = new Date().toISOString(): the value
\* '2026-11-04T15:00:00.000Z' ends in 'Z', which a DATETIME column takes with
\* a warning, and which a server in a strict sql_mode rejects
InsertAccepted == ~sqlStrict

\* await addReport(rep)
addReport(rep) == Append(reports, rep)

\* What becomes of a request whose async handler rejects.  Express 4 leaves
\* the rejection to the process: the database variant logs it
\* (process.on('unhandledRejection')) and the request gets no response; the
\* folder variants register no such handler, and Node 15 and later then end the
\* process.  Express 5 passes it to the error middleware, which answers 500.
Rejections ==
    IF variante = "blob"
    THEN {[respuesta |-> "sin-respuesta", vivo |-> TRUE],
          [respuesta |-> "500", vivo |-> TRUE]}
    ELSE {[respuesta |-> "sin-respuesta", vivo |-> FALSE],
          [respuesta |-> "sin-respuesta", vivo |-> TRUE],
          [respuesta |-> "500", vivo |-> TRUE]}

\* The whole handler; sendOk: sendMail, if called, resolves; dbOk: the
\* database answers the INSERT
ReportSubmit(rawPlaca, bodyMensaje, bodyEmpresa, sendOk, dbOk) ==
    LET placa == ToUpper(rawPlaca)
        mensaje == Trim(bodyMensaje)
        rep == [placa |-> placa, mensaje |-> mensaje]
        called == ALERT_EMAIL_TO /\ transporter
    IN  /\ vivo
        /\ Len(reports) < MaxReports
        /\ solicitud' = Some([placa |-> placa, mensaje |-> bodyMensaje,
                              empresa |-> bodyEmpresa, sendOk |-> sendOk,
                              dbOk |-> dbOk])
        /\ IF Honeypot(bodyEmpresa)
           THEN /\ respuesta' = Some("redirect")
                /\ UNCHANGED <<reports, reportMails, vivo>>
           ELSE IF mensaje = <<>> \/ Len(mensaje) < 3
           THEN /\ respuesta' = Some("error=1")
                /\ UNCHANGED <<reports, reportMails, vivo>>
           ELSE IF ~dbOk \/ ~InsertAccepted
           THEN /\ \E r \in Rejections :
                      respuesta' = Some(r.respuesta) /\ vivo' = r.vivo
                /\ UNCHANGED <<reports, reportMails>>
           ELSE /\ reports' = addReport(rep)
                /\ reportMails' = IF called /\ sendOk THEN reportMails + 1
                                  ELSE reportMails
                /\ IF called /\ ~sendOk /\ ~MailCaught
                   THEN \E r \in Rejections :
                           respuesta' = Some(r.respuesta) /\ vivo' = r.vivo
                   ELSE respuesta' = Some("enviado=1") /\ vivo' = vivo
        /\ UNCHANGED <<dbVars, curdate, envVars, cronVars, statusVars>>
        /\ UNCHANGED <<galleryVars, sqlStrict, alertVars, authVars>>
        /\ UNCHANGED <<arranque, intentos, listens, dbUp, degradado>>

InitReport ==
    /\ trucks = SeedTrucks
    /\ documents = SeedDocs
    /\ photos = <<>>
    /\ nextDocId = Cardinality(DOMAIN SeedDocs) + 1
    /\ nextPhotoId = 1
    /\ curdate = 0
    /\ transporter \in BOOLEAN
    /\ ALERT_EMAIL_TO \in BOOLEAN
    /\ tz = CostaRica
    /\ pc = [r \in Runs |-> "idle"]
    /\ rows = [r \in Runs |-> {}]
    /\ outbox = <<>>
    /\ escaped = FALSE
    /\ StatusIdle
    /\ variante \in {"blob", "fs"}
    /\ fotos = <<>>
    /\ portadaUrl = NULL
    /\ galeria = NULL
    /\ reports = <<>>
    /\ solicitud = NULL
    /\ respuesta = NULL
    /\ reportMails = 0
    /\ sqlStrict \in BOOLEAN
    /\ alertas = NULL
    /\ BootIdle
    /\ AuthIdle

NextReport ==
    \E p \in RawPlates \ {""}, m \in Mensajes, e \in Empresas, ok, db \in BOOLEAN :
        ReportSubmit(p, m, e, ok, db)

SpecReport == InitReport /\ [][NextReport]_vars

---------------------------------------------------------------------------
(* The alerts listing: listAlerts() *)

MaxAlertDocs == 3   \* documents in the table when the listing is asked for

\* Expiration dates around the limits of the listing
AlertDates ==
    {NULL, Some(0 - 5), Some(0 - 1), Some(0), Some(SoonDays), Some(SoonDays + 1)}

\* The documents tables with documents 1 .. n of truck ABC1
AlertTables ==
    UNION {[1 .. n -> {[placa |-> "ABC1", fecha_vencimiento |-> f,
                        url |-> NULL, alert22Sent |-> FALSE] : f \in AlertDates}]
              : n \in 1 .. MaxAlertDocs}

\* WHERE d.fecha_vencimiento IS NOT NULL AND DATEDIFF(...) <= 30, of the
\* documents joined with their truck
SelectAlerts ==
    {i \in DOMAIN documents :
        /\ documents[i].placa \in DOMAIN trucks
        /\ documents[i].fecha_vencimiento # NULL
        /\ DateDiff(documents[i].fecha_vencimiento[1]) <= SoonDays}

\* The orders in which the SELECT, which has no ORDER BY, may return its rows
RowOrders(ids) ==
    {o \in [1 .. Cardinality(ids) -> ids] :
        \A i, j \in 1 .. Cardinality(ids) : i # j => o[i] # o[j]}

\* rows.map(r => ({ ..., estado: (r.dias < 0) ? 'vencido' : 'por-vencer', dias: r.dias }))
AlertRow(i) ==
    LET dias == DateDiff(documents[i].fecha_vencimiento[1])
    IN  [id |-> i, placa |-> documents[i].placa,
         estado |-> IF dias < 0 THEN "vencido" ELSE "por-vencer",
         dias |-> dias]

\* const pr = x => x.estado === 'vencido' ? 0 : 1
pr(x) == IF x.estado = "vencido" THEN 0 ELSE 1

\* A comparator under which all rows are equal
CompareEqual(a, b) == 0

\* the comparator of out.sort
Compare(a, b) ==
    IF pr(a) # pr(b) THEN pr(a) - pr(b) ELSE a.dias - b.dias

\* Array.prototype.sort(comparator), a stable sort
RECURSIVE ArraySort(_)
ArraySort(out) ==
    IF out = <<>> THEN <<>>
    ELSE LET sorted == ArraySort(SubSeq(out, 1, Len(out) - 1))
             x == out[Len(out)]
             k == Cardinality({i \in 1 .. Len(sorted) : Compare(sorted[i], x) <= 0})
         IN  SubSeq(sorted, 1, k) \o <<x>> \o SubSeq(sorted, k + 1, Len(sorted))

\* listAlerts(), its SELECT returning the rows in the given order
listAlerts(order) ==
    ArraySort([i \in 1 .. Len(order) |-> AlertRow(order[i])])

\* GET /admin/alertas asks for the listing
AlertsList ==
    /\ alertas = NULL
    /\ \E order \in RowOrders(SelectAlerts) :
          alertas' = Some([rows |-> order, out |-> listAlerts(order)])
    /\ UNCHANGED <<dbVars, curdate, envVars, cronVars, statusVars>>
    /\ UNCHANGED <<galleryVars, reportVars, bootVars, authVars>>

InitAlerts ==
    /\ trucks = SeedTrucks
    /\ documents \in AlertTables
    /\ photos = <<>>
    /\ nextDocId = Cardinality(DOMAIN documents) + 1
    /\ nextPhotoId = 1
    /\ curdate = 0
    /\ transporter = FALSE
    /\ ALERT_EMAIL_TO = FALSE
    /\ tz \in Zones
    /\ pc = [r \in Runs |-> "idle"]
    /\ rows = [r \in Runs |-> {}]
    /\ outbox = <<>>
    /\ escaped = FALSE
    /\ dateStr = NULL
    /\ via = "db"
    /\ \E h \in HoursOfDay : now = LocalMidnight(tz, 0) + h
    /\ status = NULL
    /\ GalleryIdle
    /\ ReportIdle
    /\ alertas = NULL
    /\ BootIdle
    /\ AuthIdle

NextAlerts == AlertsList

SpecAlerts == InitAlerts /\ [][NextAlerts]_vars

---------------------------------------------------------------------------
(* Startup: waitForDb, ensureSchema, startServer *)

maxRetries == 10    \* waitForDb(maxRetries = 10, delayMs = 2000)

\* The three startup functions: the database variant, the folder variant and
\* the older folder variant
Startups == {"blob", "fs", "fs-old"}

\* What follows waitForDb: the older folder variant has no ensureSchema
AfterWait == IF variante = "fs-old" THEN "start" ELSE "schema"

\* The database goes down or comes back while the server starts
DbChange ==
    /\ arranque \notin {"done", "failed"}
    /\ dbUp' = ~dbUp
    /\ UNCHANGED <<dbVars, curdate, envVars, cronVars, statusVars>>
    /\ UNCHANGED <<galleryVars, reportVars, alertVars, authVars>>
    /\ UNCHANGED <<arranque, intentos, listens, vivo, degradado>>

\* One turn of the loop: await pool.query('SELECT 1 AS ok'), return if it
\* answers
Probe ==
    /\ arranque = "probe"
    /\ intentos' = intentos + 1
    /\ arranque' = IF dbUp THEN AfterWait ELSE "wait"
    /\ UNCHANGED <<dbVars, curdate, envVars, cronVars, statusVars>>
    /\ UNCHANGED <<galleryVars, reportVars, alertVars, authVars>>
    /\ UNCHANGED <<listens, vivo, dbUp, degradado>>

\* await new Promise(r => setTimeout(r, delayMs)); then i++ and the loop test,
\* and after the loop console.warn('DB no disponible, arrancando igual.')
Delay ==
    /\ arranque = "wait"
    /\ arranque' = IF intentos < maxRetries THEN "probe" ELSE AfterWait
    /\ degradado' = (intentos >= maxRetries)
    /\ UNCHANGED <<dbVars, curdate, envVars, cronVars, statusVars>>
    /\ UNCHANGED <<galleryVars, reportVars, alertVars, authVars>>
    /\ UNCHANGED <<intentos, listens, vivo, dbUp>>

\* await ensureSchema(): in the database variant a failure goes to the catch of
\* the startup function, which logs and ends it; the folder variant wraps the
\* call in its own try/catch
EnsureSchema ==
    /\ arranque = "schema"
    /\ arranque' = IF variante = "blob" /\ ~dbUp THEN "failed" ELSE "start"
    /\ UNCHANGED <<dbVars, curdate, envVars, cronVars, statusVars>>
    /\ UNCHANGED <<galleryVars, reportVars, alertVars, authVars>>
    /\ UNCHANGED <<intentos, listens, vivo, dbUp, degradado>>

\* startServer(): if (serverStarted) return; serverStarted = true; app.listen
StartServer ==
    /\ arranque = "start"
    /\ listens' = IF listens > 0 THEN listens ELSE listens + 1
    /\ arranque' = "done"
    /\ UNCHANGED <<dbVars, curdate, envVars, cronVars, statusVars>>
    /\ UNCHANGED <<galleryVars, reportVars, alertVars, authVars>>
    /\ UNCHANGED <<intentos, vivo, dbUp, degradado>>

InitStartup ==
    /\ trucks = SeedTrucks
    /\ documents = SeedDocs
    /\ photos = <<>>
    /\ nextDocId = Cardinality(DOMAIN SeedDocs) + 1
    /\ nextPhotoId = 1
    /\ curdate = 0
    /\ transporter = FALSE
    /\ ALERT_EMAIL_TO = FALSE
    /\ tz = CostaRica
    /\ pc = [r \in Runs |-> "idle"]
    /\ rows = [r \in Runs |-> {}]
    /\ outbox = <<>>
    /\ escaped = FALSE
    /\ StatusIdle
    /\ variante \in Startups
    /\ fotos = <<>>
    /\ portadaUrl = NULL
    /\ galeria = NULL
    /\ ReportIdle
    /\ alertas = NULL
    /\ arranque = "probe"
    /\ intentos = 0
    /\ listens = 0
    /\ vivo = TRUE
    /\ dbUp \in BOOLEAN
    /\ degradado = FALSE
    /\ AuthIdle

NextStartup ==
    \/ DbChange
    \/ Probe
    \/ Delay
    \/ EnsureSchema
    \/ StartServer

SpecStartup == InitStartup /\ [][NextStartup]_vars

---------------------------------------------------------------------------
(* POST /admin/cover/upload with the request and its answer kept *)

\* The handler as CoverUpload, seen from the client: the redirect it answers
\* with, or what becomes of the rejection of savePhotoDb
CoverRequest(rawPlaca, file) ==
    LET placa == ToUpper(rawPlaca)
    IN  /\ vivo
        /\ CoverStore(rawPlaca, file)
        /\ solicitud' = Some([placa |-> placa, file |-> file])
        /\ IF placa # "" /\ file # NULL /\ ~PhotoInsertOk(placa)
           THEN \E r \in Rejections :
                   /\ respuesta' = Some(r.respuesta)
                   /\ vivo' = r.vivo
           ELSE /\ respuesta' = Some("302")
                /\ vivo' = vivo
        /\ UNCHANGED <<documents, nextDocId, curdate>>
        /\ UNCHANGED <<envVars, cronVars, statusVars, galleryVars, alertVars, authVars>>
        /\ UNCHANGED <<reports, reportMails, sqlStrict>>
        /\ UNCHANGED <<arranque, intentos, listens, dbUp, degradado>>

NextCover ==
    \/ \E p \in RawPlates : AdminEditar(p)
    \/ \E p \in RawPlates, file \in Uploads : PhotoUpload(p, file)
    \/ \E p \in RawPlates, n \in NameInputs : PhotoDelete(p, n)
    \/ \E p \in RawPlates, file \in Uploads : CoverRequest(p, file)

SpecCover == InitAdmin /\ [][NextCover]_vars

---------------------------------------------------------------------------
(* Sessions: login, logout and the routes behind requireAdmin.  The other
   specifications leave the sessions out; their admin actions are the
   handlers that run once requireAdmin has let the request through. *)

\* process.env.ADMIN_PASS || 'admin-1234', as the sequence of its characters
ADMIN_PASS == <<"p", "w">>

\* What a login form may carry in its field pass
PassInputs ==
    {<<>>, <<"p", "w">>, <<"p", "x">>, <<Blank, "p", "w">>, <<"p", "w", Blank>>,
     <<"p", Blank, "w">>}

\* A row the table reports holds when the server starts
SeedReports == <<[placa |-> "ABC1", mensaje |-> <<"o", "k", "a">>]>>

\* res.redirect(location); res.json(rows)
Redirect(location) == [status |-> "302", location |-> location, body |-> <<>>]
Json(body) == [status |-> "200", location |-> "", body |-> body]

Request(s, ruta, pass) == Some([sid |-> s, ruta |-> ruta, pass |-> pass])

\* What no route of this section touches
AuthFrame ==
    /\ UNCHANGED <<curdate, envVars, cronVars, statusVars, galleryVars>>
    /\ UNCHANGED <<reports, reportMails, sqlStrict, alertVars, bootVars>>

\* A guard that lets every request through
requireAdminSkipped(s, next) == next

\* requireAdmin(req, res, next)
requireAdmin(s, next) ==
    IF admin[s] THEN next
    ELSE /\ respuesta' = Some(Redirect("/admin/login"))
         /\ UNCHANGED dbVars

\* POST /admin/login
Login(s, bodyPass) ==
    LET pass == Trim(bodyPass)
    IN  /\ vivo
        /\ solicitud' = Request(s, "login", bodyPass)
        /\ IF pass # ADMIN_PASS
           THEN /\ respuesta' = Some(Redirect("/admin/login"))
                /\ admin' = admin
           ELSE /\ admin' = [admin EXCEPT ![s] = TRUE]
                /\ respuesta' = Some(Redirect("/admin/editar"))
        /\ UNCHANGED dbVars
        /\ AuthFrame

\* GET /admin/logout: req.session.destroy
Logout(s) ==
    /\ vivo
    /\ solicitud' = Request(s, "logout", <<>>)
    /\ admin' = [admin EXCEPT ![s] = FALSE]
    /\ respuesta' = Some(Redirect("/"))
    /\ UNCHANGED dbVars
    /\ AuthFrame

\* POST /admin/editar, requireAdmin first
PostEditar(s, rawPlaca) ==
    /\ vivo
    /\ solicitud' = Request(s, "editar", <<>>)
    /\ requireAdmin(s, /\ EditarStore(rawPlaca)
                       /\ UNCHANGED <<documents, photos, nextDocId, nextPhotoId>>
                       /\ respuesta' = Some(Redirect("/admin/editar")))
    /\ UNCHANGED admin
    /\ AuthFrame

\* POST /admin/doc/delete, requireAdmin first
PostDocDelete(s, rawPlaca, id) ==
    LET placa == ToUpper(rawPlaca)
    IN  /\ vivo
        /\ solicitud' = Request(s, "doc/delete", <<>>)
        /\ requireAdmin(s, /\ documents' = IF placa = "" THEN documents
                                           ELSE deleteDoc(placa, id)
                           /\ UNCHANGED <<trucks, photos, nextDocId, nextPhotoId>>
                           /\ respuesta' = Some(Redirect("/admin/editar")))
        /\ UNCHANGED admin
        /\ AuthFrame

\* GET /api/reportes, requireAdmin first: SELECT * FROM reports
GetReportes(s) ==
    /\ vivo
    /\ solicitud' = Request(s, "reportes", <<>>)
    /\ requireAdmin(s, /\ respuesta' = Some(Json(reports))
                       /\ UNCHANGED dbVars)
    /\ UNCHANGED admin
    /\ AuthFrame

InitAuth ==
    /\ trucks = SeedTrucks
    /\ documents = SeedDocs
    /\ photos = <<>>
    /\ nextDocId = Cardinality(DOMAIN SeedDocs) + 1
    /\ nextPhotoId = 1
    /\ curdate = 0
    /\ transporter = FALSE
    /\ ALERT_EMAIL_TO = FALSE
    /\ tz = CostaRica
    /\ pc = [r \in Runs |-> "idle"]
    /\ rows = [r \in Runs |-> {}]
    /\ outbox = <<>>
    /\ escaped = FALSE
    /\ StatusIdle
    /\ GalleryIdle
    /\ reports \in {<<>>, SeedReports}
    /\ solicitud = NULL
    /\ respuesta = NULL
    /\ reportMails = 0
    /\ sqlStrict = FALSE
    /\ alertas = NULL
    /\ BootIdle
    /\ AuthIdle

NextAuth ==
    \/ \E s \in Sessions, pass \in PassInputs : Login(s, pass)
    \/ \E s \in Sessions : Logout(s)
    \/ \E s \in Sessions, p \in RawPlates : PostEditar(s, p)
    \/ \E s \in Sessions, p \in RawPlates, id \in DOMAIN SeedDocs : PostDocDelete(s, p, id)
    \/ \E s \in Sessions : GetReportes(s)

SpecAuth == InitAuth /\ [][NextAuth]_vars

---------------------------------------------------------------------------
(* Specification of the writes *)

\* The operations that write a plate: trucks, documents, photos and reports
NextPlates ==
    \/ \E p \in RawPlates : AdminEditar(p)
    \/ \E p \in RawPlates : DocAdd(p, TRUE, NULL)
    \/ \E p \in RawPlates, file \in Uploads : DocUpload(p, file, Some(SoonDays))
    \/ \E p \in RawPlates, file \in Uploads : PhotoUpload(p, file)
    \/ \E p \in RawPlates, file \in Uploads : CoverUpload(p, file)
    \/ \E p \in RawPlates \ {""} :
          ReportSubmit(p, <<"o", "k", "a">>, <<>>, TRUE, TRUE)

SpecPlates == InitAdmin /\ [][NextPlates]_vars

---------------------------------------------------------------------------
(* Properties of the sweep *)

AllDocIds == 1 .. LastDocId

\* The number of delivered notifications that list document id
Listed(id) == Cardinality({k \in 1 .. Len(outbox) : id \in outbox[k]})

Qualifies(id) ==
    /\ documents[id].fecha_vencimiento # NULL
    /\ documents[id].fecha_vencimiento[1] - curdate = AlertDays
    /\ documents[id].alert22Sent = FALSE

\* C1 as the specification states it: over any sequence of sweep runs and
\* admin operations, a document is listed in at most one delivered 22-day
\* notification.
C1_AtMostOneNotification ==
    \A id \in AllDocIds : Listed(id) <= 1

\* C1, amended: when sweep runs do not overlap, a document whose alert-sent
\* flag is true is never listed in a further notification (a second run on
\* the same day sends nothing for a document the first run flagged); a
\* document is notified again only if the flag update after a send was lost.
C1_FlaggedNeverNotifiedAgain ==
    [][\A id \in AllDocIds :
          (id \in DOMAIN documents /\ documents[id].alert22Sent)
             => Listed(id)' = Listed(id)]_vars

\* A second run on the day of the first: the document the first run notified
\* and flagged is 22 days from expiring and is not among the rows selected.
C1_SecondRunSkipsFlagged ==
    /\ pc[Timer] = "selected"
    /\ \E id \in DOMAIN documents :
          /\ documents[id].alert22Sent
          /\ Listed(id) = 1
          /\ documents[id].fecha_vencimiento # NULL
          /\ documents[id].fecha_vencimiento[1] - curdate = AlertDays
          /\ id \notin rows[Timer]

\* C2: a document's alert-sent flag changes only in the step after the run's
\* send succeeded, and that step sets it for exactly the documents listed in
\* that notification; a step in which the send fails changes no flag.
C2_FlagSetOnlyAfterSend ==
    [][/\ (\E id \in DOMAIN documents \cap DOMAIN documents' :
              documents'[id].alert22Sent # documents[id].alert22Sent)
          => /\ pc[Timer] = "sent"
             /\ outbox # <<>>
             /\ \A id \in DOMAIN documents :
                   /\ id \in DOMAIN documents'
                   /\ documents'[id].alert22Sent =
                         (documents[id].alert22Sent \/ id \in outbox[Len(outbox)])
       /\ (pc[Timer] = "selected" /\ pc'[Timer] = "caught")
          => documents' = documents]_vars

\* The run has ended after a successful send: the listed document is flagged
\* and a document the notification did not list is not.
C2_ListedFlaggedOthersNot ==
    /\ pc[Timer] = "idle"
    /\ outbox # <<>>
    /\ \E id \in DOMAIN documents :
          id \in outbox[Len(outbox)] /\ documents[id].alert22Sent
    /\ \E id \in DOMAIN documents :
          id \notin outbox[Len(outbox)] /\ ~documents[id].alert22Sent

\* C3: two sweep runs in flight together never both send a notification for
\* the same document.
C3_OverlappingRunsSendOnce ==
    \A r1, r2 \in Runs :
        (r1 # r2 /\ pc[r1] = "sent" /\ pc[r2] = "sent")
           => rows[r1] \cap rows[r2] = {}

\* C4: a flagged document has had its notification delivered, and between
\* the send and the flag update the listed documents are still unflagged, so
\* a crash there leaves them unflagged and a later run can only notify again.
C4_FlaggedWasNotified ==
    /\ \A id \in DOMAIN documents :
          documents[id].alert22Sent => Listed(id) >= 1
    /\ pc[Timer] = "sent"
          => \A id \in rows[Timer] \cap DOMAIN documents :
                ~documents[id].alert22Sent

\* The flag update of the first send was lost: the document has now been
\* notified twice and the second run's update has flagged it.
C4_DuplicateAfterLostUpdate ==
    \E id \in DOMAIN documents :
        Listed(id) = 2 /\ documents[id].alert22Sent /\ pc[Timer] = "idle"

\* C5: the run's selection is exactly the documents with an expiration date,
\* a day-count of exactly 22 and a false flag, and a send delivers one
\* notification listing exactly the selected documents.
C5_SelectsExactlyQualifying ==
    [][/\ (pc[Timer] = "idle" /\ pc'[Timer] = "selected")
          => rows'[Timer] = {id \in DOMAIN documents : Qualifies(id)}
       /\ outbox' # outbox
          => /\ pc[Timer] = "selected"
             /\ outbox' = Append(outbox, rows[Timer])]_vars

\* One notification lists two documents, while the table also holds a
\* document without a date or with another day-count, which it does not list.
C5_ConsolidatedNotification ==
    /\ pc[Timer] = "sent"
    /\ Cardinality(outbox[Len(outbox)]) = 2
    /\ outbox[Len(outbox)] = rows[Timer]
    /\ \E id \in DOMAIN documents : id \notin rows[Timer]

\* C6: a true flag stays true while the document exists; a flag becomes true
\* only in the sweep's update step; a false flag not there before belongs to
\* a document created in that step under an identifier never used before.
C6_FlagNeverReset ==
    [][/\ \A id \in DOMAIN documents \cap DOMAIN documents' :
             documents[id].alert22Sent => documents'[id].alert22Sent
       /\ \A id \in DOMAIN documents' :
             /\ (documents'[id].alert22Sent
                   /\ (id \notin DOMAIN documents \/ ~documents[id].alert22Sent))
                => (id \in DOMAIN documents /\ pc[Timer] = "sent"
                       /\ pc'[Timer] = "idle")
             /\ id \notin DOMAIN documents
                => (~documents'[id].alert22Sent /\ id = nextDocId
                       /\ id < nextDocId')]_vars

\* A document was created after an earlier one was flagged, or next to it:
\* the flagged document is still flagged.
C6_FlaggedAndNewDocument ==
    /\ nextDocId > LastDocId
    /\ LastDocId \in DOMAIN documents
    /\ ~documents[LastDocId].alert22Sent
    /\ \E id \in DOMAIN documents : documents[id].alert22Sent

\* C7: the selection changes no table and delivers nothing, and a run whose
\* selection is empty ends without delivering a notification or changing a
\* table.
C7_NothingQualifies ==
    [][/\ (pc[Timer] = "idle" /\ pc'[Timer] = "selected")
          => (outbox' = outbox /\ dbVars' = dbVars)
       /\ (pc[Timer] = "selected" /\ rows[Timer] = {} /\ pc'[Timer] # "selected")
          => (pc'[Timer] = "idle" /\ outbox' = outbox /\ dbVars' = dbVars)]_vars

\* A run has selected nothing although mail is configured and documents exist.
C7_EmptySelection ==
    /\ pc[Timer] = "selected"
    /\ rows[Timer] = {}
    /\ transporter /\ ALERT_EMAIL_TO
    /\ DOMAIN documents # {}

\* C8: no error leaves the sweep; a run with the channel unconfigured ends
\* after its selection; a run that ends there or whose send fails delivers
\* nothing and changes no document, nor does the catch.
C8_UnconfiguredOrFailedSend ==
    /\ [](~escaped)
    /\ [][/\ (pc[Timer] = "selected" /\ pc'[Timer] # "selected"
                /\ ~(transporter /\ ALERT_EMAIL_TO))
             => pc'[Timer] = "idle"
          /\ (pc[Timer] = "selected" /\ pc'[Timer] \in {"idle", "caught"})
             => (outbox' = outbox /\ documents' = documents)
          /\ (pc[Timer] = "caught" /\ pc'[Timer] # "caught")
             => (pc'[Timer] = "idle" /\ outbox' = outbox
                    /\ documents' = documents)]_vars

\* The send of the first run failed: the run is in its catch, nothing was
\* delivered and the selected documents are unflagged.
C8_SendFailed ==
    /\ pc[Timer] = "caught"
    /\ rows[Timer] # {}
    /\ outbox = <<>>
    /\ \A id \in rows[Timer] \cap DOMAIN documents : ~documents[id].alert22Sent

---------------------------------------------------------------------------
(* Properties of the document status *)

\* C9: a document whose expiration date is before today has status 'vencido'
\* and a negative day-count equal to the difference in days.
C9_ExpiredExactDays ==
    (status # NULL /\ dateStr # NULL /\ dateStr[1] < Today)
       => status[1] = [estado |-> "vencido", dias |-> Some(dateStr[1] - Today)]

\* C10: a document whose expiration date is today or up to 30 days ahead has
\* status 'por-vencer' and that number of days as its day-count.
C10_SoonExactDays ==
    (status # NULL /\ dateStr # NULL /\ dateStr[1] - Today \in 0 .. SoonDays)
       => status[1] = [estado |-> "por-vencer", dias |-> Some(dateStr[1] - Today)]

\* C11: a document whose expiration date is more than 30 days ahead has
\* status 'vigente', a document without expiration date has status
\* 'sin-fecha' with no day-count, and every input gets one of the four states.
C11_CurrentOrNoDate ==
    status # NULL
       => /\ status[1].estado \in {"vencido", "por-vencer", "vigente", "sin-fecha"}
          /\ dateStr = NULL
                => status[1] = [estado |-> "sin-fecha", dias |-> NULL]
          /\ (dateStr # NULL /\ dateStr[1] - Today > SoonDays)
                => status[1].estado = "vigente"


\* C14: a step that deletes or replaces the photo a truck's cover refers to
\* leaves that truck's cover reference as it was
C14_CoverKeptOnDeleteOrReplace ==
    [][\A p \in DOMAIN trucks : \A i \in DOMAIN photos :
          (/\ trucks[p].foto = PhotoUrl(photos[i].placa, i)
           /\ (i \notin DOMAIN photos' \/ photos'[i] # photos[i]))
             => (p \in DOMAIN trucks' /\ trucks'[p].foto = trucks[p].foto)]_vars

\* one truck's cover refers to a photo that was deleted, another's to a photo
\* that was replaced
C14_CoverOfDeletedAndReplaced ==
    \E p, q \in DOMAIN trucks :
       /\ \E i \in 1 .. (nextPhotoId - 1) :
             i \notin DOMAIN photos /\ trucks[p].foto = PhotoUrl(p, i)
       /\ \E i \in DOMAIN photos :
             /\ photos[i].file \in {f[1] : f \in ReplaceFiles \ {NULL}}
             /\ trucks[q].foto = PhotoUrl(photos[i].placa, i)

\* C20: every stored document and every stored photo belongs to a plate that
\* has a truck record
C20_EveryRecordHasTruck ==
    /\ \A d \in DOMAIN documents : documents[d].placa \in DOMAIN trucks
    /\ \A i \in DOMAIN photos : photos[i].placa \in DOMAIN trucks

\* The submission a step receives
Received == solicitud'[1]

\* C15: with the honeypot empty and the database answering, a submission whose trimmed message has fewer
\* than 3 characters appends nothing and gets the error indicator; one whose
\* trimmed message has 3 or more appends exactly one report and gets the
\* success indicator
C15_ShortRejectedLongStored ==
    [][(Received.empresa = <<>> /\ Received.dbOk)
          => IF Len(Trim(Received.mensaje)) < 3
             THEN reports' = reports /\ respuesta' = Some("error=1")
             ELSE /\ Len(reports') = Len(reports) + 1
                  /\ SubSeq(reports', 1, Len(reports)) = reports
                  /\ respuesta' = Some("enviado=1")]_vars

\* C16 as stated: a submission whose honeypot field is not empty appends
\* nothing, sends nothing, and gets neither the error nor a failure
C16_HoneypotNonEmpty ==
    [][Received.empresa # <<>>
          => /\ reports' = reports
             /\ reportMails' = reportMails
             /\ respuesta' = Some("redirect")]_vars

\* C16: a submission whose honeypot field, trimmed, is not empty appends
\* nothing, sends nothing, and gets neither the error nor a failure, whatever
\* its message
C16_HoneypotNonBlank ==
    [][Trim(Received.empresa) # <<>>
          => /\ reports' = reports
             /\ reportMails' = reportMails
             /\ respuesta' = Some("redirect")]_vars

\* a filled honeypot with a message that would have been stored, on a
\* configured channel
C16_BotWithValidMessage ==
    /\ solicitud # NULL
    /\ Trim(solicitud[1].empresa) # <<>>
    /\ Len(Trim(solicitud[1].mensaje)) >= 3
    /\ solicitud[1].sendOk /\ solicitud[1].dbOk
    /\ ALERT_EMAIL_TO /\ transporter /\ ~sqlStrict
    /\ respuesta = Some("redirect")
    /\ reports = <<>>
    /\ reportMails = 0

\* C17: when the report of a submission has been stored and the notification
\* fails or the channel is not configured, the report stays stored and the
\* sender gets the success indicator
C17_MailFailureKeepsReport ==
    [][(/\ Len(reports') = Len(reports) + 1
        /\ ~(ALERT_EMAIL_TO /\ transporter /\ Received.sendOk))
          => /\ reports'[Len(reports')] =
                   [placa |-> Received.placa, mensaje |-> Trim(Received.mensaje)]
             /\ reportMails' = reportMails
             /\ respuesta' = Some("enviado=1")]_vars

\* a stored report whose notification was attempted and failed
C17_StoredAfterFailedMail ==
    /\ solicitud # NULL
    /\ ALERT_EMAIL_TO /\ transporter /\ ~solicitud[1].sendOk
    /\ reports # <<>>
    /\ reports[Len(reports)] =
          [placa |-> solicitud[1].placa, mensaje |-> Trim(solicitud[1].mensaje)]
    /\ respuesta = Some("enviado=1")
    /\ reportMails = 0

\* The status the per-truck view gives document i
ViewStatus(i) == RowStatus(documents[i].fecha_vencimiento)

\* C18: the alerts listing holds exactly the documents that the per-truck
\* view shows as expired or expiring soon, each once, with the state and the
\* day-count of that view
C18_ListingMatchesView ==
    alertas # NULL
       => LET out == alertas[1].out
          IN  /\ {out[i].id : i \in 1 .. Len(out)} =
                    {d \in DOMAIN documents :
                        ViewStatus(d).estado \in {"vencido", "por-vencer"}}
              /\ \A i, j \in 1 .. Len(out) : out[i].id = out[j].id => i = j
              /\ \A i \in 1 .. Len(out) :
                    [estado |-> out[i].estado, dias |-> Some(out[i].dias)] =
                       ViewStatus(out[i].id)

\* C19: in the alerts listing every expired document comes before every
\* expiring-soon document, and within each group the day-counts ascend
C19_ExpiredFirstThenByDays ==
    alertas # NULL
       => LET out == alertas[1].out
          IN  \A i, j \in 1 .. Len(out) :
                 i < j => /\ ~(out[i].estado = "por-vencer" /\ out[j].estado = "vencido")
                          /\ out[i].estado = out[j].estado => out[i].dias <= out[j].dias

\* a listing of two expired documents and one expiring soon that the SELECT
\* returned in the reverse of the listed order
C19_ReversedRowsSorted ==
    /\ alertas # NULL
    /\ LET out == alertas[1].out
           order == alertas[1].rows
       IN  /\ Len(out) = 3
           /\ out[1].estado = "vencido" /\ out[2].estado = "vencido"
           /\ out[1].dias < out[2].dias
           /\ out[3].estado = "por-vencer"
           /\ \A i \in 1 .. 3 : order[i] = out[4 - i].id

\* C21: a step that deletes a truck leaves no document and no photo of its
\* plate in the stores
C21_DeleteRemovesDependents ==
    [][\A p \in DOMAIN trucks :
          p \notin DOMAIN trucks'
             => /\ \A d \in DOMAIN documents' : documents'[d].placa # p
                /\ \A i \in DOMAIN photos' : photos'[i].placa # p]_vars

\* C22: a submission during which the INSERT of its report fails leaves the
\* stores as they were, is answered with a failure indicator, and the process
\* keeps running
C22_FailureAnsweredProcessAlive ==
    [][(/\ Trim(Received.empresa) = <<>>
        /\ Len(Trim(Received.mensaje)) >= 3
        /\ ~Received.dbOk)
          => /\ reports' = reports
             /\ respuesta' = Some("500")
             /\ vivo']_vars

\* C23: waitForDb makes at most 10 probes; the server listens at most once,
\* and not before waitForDb returned; and when waitForDb gave up after its
\* last failed probe and the startup function has ended, the server listens
C23_BoundedProbesThenListening ==
    /\ intentos <= maxRetries
    /\ listens <= 1
    /\ arranque \in {"probe", "wait"} => listens = 0
    /\ (degradado /\ arranque \in {"done", "failed"}) => listens = 1

\* The plates in canonical form, and plates written in another letter case
CanonicalPlates == {"ABC1", "XYZ9"}
CasePairs == {<<"abc1", "ABC1">>, <<"Abc1", "ABC1">>, <<"xyz9", "XYZ9">>}

\* C24: every truck, document, photo and report is stored under an uppercase
\* plate, and a lookup by a plate in another letter case returns the truck,
\* the documents and the photos of the uppercase plate
C24_PlatesCanonical ==
    /\ DOMAIN trucks \subseteq CanonicalPlates
    /\ \A d \in DOMAIN documents : documents[d].placa \in CanonicalPlates
    /\ \A i \in DOMAIN photos : photos[i].placa \in CanonicalPlates
    /\ \A k \in 1 .. Len(reports) : reports[k].placa \in CanonicalPlates
    /\ \A c \in CasePairs :
          /\ getTruck(c[1]) = getTruckExact(c[2])
          /\ getDocsByPlaca(c[1]) =
                {d \in DOMAIN documents : documents[d].placa = c[2]}
          /\ listPhotosFromDb(c[1]) =
                {PhotoUrl(c[2], i) : i \in {j \in DOMAIN photos : photos[j].placa = c[2]}}

\* a truck, a document, a photo and a report written for XYZ9, and a truck
\* that a lookup by a lower-case plate finds
C24_WrittenForEveryStore ==
    /\ "XYZ9" \in DOMAIN trucks
    /\ \E d \in DOMAIN documents : documents[d].placa = "XYZ9"
    /\ \E i \in DOMAIN photos : photos[i].placa = "ABC1"
    /\ \E k \in 1 .. Len(reports) : reports[k].placa = "ABC1"
    /\ getTruck("abc1") # NULL

\* C25: a save of the edit form leaves every cover reference as it was, gives
\* a truck it creates the empty cover, and adds no truck but the saved plate
C25_SaveKeepsCover ==
    [][\A p \in RawPlates :
          AdminEditar(p)
             => /\ DOMAIN trucks \subseteq DOMAIN trucks'
                /\ DOMAIN trucks' \subseteq DOMAIN trucks \cup {ToUpper(p)}
                /\ \A q \in DOMAIN trucks' :
                      trucks'[q].foto =
                         IF q \in DOMAIN trucks THEN trucks[q].foto ELSE ""]_vars

\* the database variant, where only a save creates a truck: XYZ9 was created
\* by a save and ABC1, which a save finds again, has a cover
C25_SavedTrucksWithCover ==
    /\ variante = "blob"
    /\ "XYZ9" \in DOMAIN trucks
    /\ trucks["XYZ9"].foto = ""
    /\ trucks["ABC1"].foto # ""

\* C26: the cover of a truck is empty or names a photo that was handed out and
\* that, if still stored, is stored for that same truck; never a photo of
\* another truck and never an identifier no photo ever had
C26_CoverIsOwnPhoto ==
    \A p \in DOMAIN trucks :
       \/ trucks[p].foto = ""
       \/ \E i \in 1 .. LastPhotoId :
             /\ i < nextPhotoId
             /\ trucks[p].foto = PhotoUrl(p, i)
             /\ i \in DOMAIN photos => photos[i].placa = p

\* C27: a cover upload of an image for a plate that has no truck leaves a
\* truck for that plate whose cover is the photo just stored, in the database
\* variant as in the folder variants
C27_CoverUploadCreatesTruck ==
    [][\A p \in RawPlates \ {""}, file \in Uploads \ {NULL} :
          (/\ CoverRequest(p, file)
           /\ ALLOWED_EXTS(file[1])
           /\ ToUpper(p) \notin DOMAIN trucks)
             => /\ ToUpper(p) \in DOMAIN trucks'
                /\ trucks'[ToUpper(p)].foto = PhotoUrl(ToUpper(p), nextPhotoId)
                /\ nextPhotoId \in DOMAIN photos']_vars

\* C28: the image stored with a document by POST /admin/doc/upload is in the
\* gallery listing of no truck
C28_DocImageNotInGallery ==
    \A d \in DOMAIN documents :
       documents[d].url # NULL
          => \A p \in Plates :
                PhotoUrl(documents[d].placa, documents[d].url[1])
                   \notin listPhotosFromDb(p)

\* C29: the listing is the stored photo list or shorter by exactly one entry;
\* two distinct stored photos are never both left out
C29_AtMostOneHidden ==
    galeria # NULL
       => /\ Len(galeria[1]) \in {Len(fotos), Len(fotos) - 1}
          /\ \A u, v \in Range(fotos) :
                (u \notin Range(galeria[1]) /\ v \notin Range(galeria[1])) => u = v

\* The request the step answers, the routes behind requireAdmin and the stores
Req == solicitud'[1]
AdminRoutes == {"editar", "doc/delete", "reportes"}
Stores == <<trucks, documents, photos, nextDocId, nextPhotoId, reports>>

\* An admin request of a session without the flag is redirected to the login
\* page and leaves the stores alone; the flag is cleared by logout, and only
\* by the logout of that session
GuardedByFlag ==
    \A s \in Sessions :
       /\ (Req.sid = s /\ Req.ruta \in AdminRoutes /\ ~admin[s])
             => /\ Stores' = Stores
                /\ respuesta' = Some(Redirect("/admin/login"))
       /\ (Req.sid = s /\ Req.ruta = "logout") => ~admin'[s]
       /\ (admin[s] /\ ~admin'[s]) => (Req.sid = s /\ Req.ruta = "logout")

\* C30 as stated: an admin request without the flag changes and reveals
\* nothing and is sent to the login page; the flag is set only by a login of
\* that session that carries the configured password, and cleared by logout
C30_FlagOnlyByConfiguredPassword ==
    [][/\ GuardedByFlag
       /\ \A s \in Sessions :
             (~admin[s] /\ admin'[s])
                => (Req.sid = s /\ Req.ruta = "login" /\ Req.pass = ADMIN_PASS)]_vars

\* C30 amended: the same, the flag being set only by a login whose password,
\* once the white space around it is removed, is the configured password
C30_FlagOnlyByTrimmedPassword ==
    [][/\ GuardedByFlag
       /\ \A s \in Sessions :
             (~admin[s] /\ admin'[s])
                => (Req.sid = s /\ Req.ruta = "login"
                    /\ Trim(Req.pass) = ADMIN_PASS)]_vars

\* Session s1 is logged in and has deleted a document; session s2, without
\* the flag, has just asked for the reports and was sent to the login page
C30_RefusedBesideLoggedIn ==
    /\ admin["s1"] /\ ~admin["s2"]
    /\ DOMAIN documents # DOMAIN SeedDocs
    /\ reports # <<>>
    /\ solicitud = Request("s2", "reportes", <<>>)
    /\ respuesta = Some(Redirect("/admin/login"))
====
